---- MODULE Spec2Model ----
(***************************************************************************)
(* Model of join-router.py: a synchronous socketserver.TCPServer whose     *)
(* request handler JoinRouter overrides do_GET / do_HEAD of                *)
(* http.server.SimpleHTTPRequestHandler.                                   *)
(*                                                                         *)
(* Strings the handler inspects are sequences of one-character strings,    *)
(* so that urlparse, re.match and str.upper are computed character by      *)
(* character.  The bytes a handler writes are recorded as the sequence of  *)
(* calls it makes (send_response, send_header, end_headers, or the call    *)
(* of the inherited do_GET).                                               *)
(***************************************************************************)
EXTENDS Naturals, Sequences, FiniteSets

VARIABLES pending, pc, handling, last, variant, template_exists

vars == <<pending, pc, handling, last, variant, template_exists>>

(* ----------------------------- bounds ---------------------------------- *)

\* longest tail appended to the 5-character stem of a generated join path
MaxTail == 2
\* connections waiting in the listen queue
MaxPending == 1

(* --------------------------- characters -------------------------------- *)

LowerSeq == <<"a","b","c","d","e","f","g","h","i","j","k","l","m",
              "n","o","p","q","r","s","t","u","v","w","x","y","z">>

UpperSeq == <<"A","B","C","D","E","F","G","H","I","J","K","L","M",
              "N","O","P","Q","R","S","T","U","V","W","X","Y","Z">>

LowerLetters == {LowerSeq[i] : i \in 1..26}

UpperLetters == {UpperSeq[i] : i \in 1..26}

Digits == {"0","1","2","3","4","5","6","7","8","9"}

\* str.upper() on one character
upper_char(c) ==
    IF c \in LowerLetters
    THEN UpperSeq[CHOOSE i \in 1..26 : LowerSeq[i] = c]
    ELSE c

\* str.lower() on one character (case folding used by re.IGNORECASE)
lower_char(c) ==
    IF c \in UpperLetters
    THEN LowerSeq[CHOOSE i \in 1..26 : UpperSeq[i] = c]
    ELSE c

\* str.upper()
upper(s) == [i \in 1..Len(s) |-> upper_char(s[i])]

(* ------------------------------ urlparse ------------------------------- *)

\* index of the first occurrence of a character of cs in s, Len(s)+1 if none
find_first(s, cs) ==
    IF \E i \in 1..Len(s) : s[i] \in cs
    THEN CHOOSE i \in 1..Len(s) : s[i] \in cs /\ \A j \in 1..(i-1) : s[j] \notin cs
    ELSE Len(s) + 1

\* urlparse(url) for a request target without scheme or netloc: the fragment
\* is cut at the first '#', then the query at the first '?'
urlparse(url) ==
    LET h == find_first(url, {"#"})
        nofrag == SubSeq(url, 1, h - 1)
        q == find_first(nofrag, {"?"})
    IN [path     |-> SubSeq(nofrag, 1, q - 1),
        query    |-> SubSeq(nofrag, q + 1, Len(nofrag)),
        fragment |-> SubSeq(url, h + 1, Len(url))]

(* ------------------------------ re.match ------------------------------- *)

\* the literal head of the pattern r'/join/([A-Z0-9]{6})'
JoinLiteral == <<"/","j","o","i","n","/">>

\* number of repetitions {6} of the character class
CodeLen == 6

\* the class [A-Z0-9] with the case folded: the bug of forgetting the flag
char_class_case_sensitive(c) == c \in UpperLetters \cup Digits

\* the class [A-Z0-9] under re.IGNORECASE
char_class(c) == c \in UpperLetters \cup Digits \/ upper_char(c) \in UpperLetters

\* a literal pattern character under re.IGNORECASE
literal_char(p, c) == lower_char(p) = lower_char(c)

\* re.match(r'/join/([A-Z0-9]{6})', s, re.IGNORECASE): anchored at the start
\* of s only; whatever follows the six characters is not looked at
re_match(s) ==
    LET n == Len(JoinLiteral)
        ok == /\ Len(s) >= n + CodeLen
              /\ \A i \in 1..n : literal_char(JoinLiteral[i], s[i])
              /\ \A i \in (n+1)..(n+CodeLen) : char_class(s[i])
    IN [matched |-> ok,
        group1  |-> IF ok THEN SubSeq(s, n + 1, n + CodeLen) ELSE <<>>]

(* ------------------------------ handler -------------------------------- *)

NoValue == <<>>

send_response(code) ==
    [op |-> "send_response", status |-> code, name |-> "", value |-> NoValue]

send_header(n, v) ==
    [op |-> "send_header", status |-> 0, name |-> n, value |-> v]

end_headers == [op |-> "end_headers", status |-> 0, name |-> "", value |-> NoValue]

\* super().do_GET(): SimpleHTTPRequestHandler serves self.path from the
\* working directory
super_do_GET(self_path) ==
    [op |-> "SimpleHTTPRequestHandler.do_GET", status |-> 0, name |-> "",
     value |-> self_path]

\* SimpleHTTPRequestHandler.do_HEAD, which JoinRouter overrides
super_do_HEAD(self_path) ==
    [op |-> "SimpleHTTPRequestHandler.do_HEAD", status |-> 0, name |-> "",
     value |-> self_path]

\* '/join.html?code='
RedirectHead ==
    <<"/","j","o","i","n",".","h","t","m","l","?","c","o","d","e","=">>

\* the bug of not upper-casing the captured group
share_code_as_typed(join_match) == join_match.group1

\* the bug of keeping the share code in an attribute of the class that is
\* read before the current request updates it
share_code_stale(join_match) ==
    IF last.done /\ re_match(urlparse(last.req.path \o last.req.rest).path).matched
    THEN upper(re_match(urlparse(last.req.path \o last.req.rest).path).group1)
    ELSE upper(join_match.group1)

\* share_code = join_match.group(1).upper()
share_code(join_match) == upper(join_match.group1)

\* redirect_url = f'/join.html?code={share_code}'
redirect_url(code) == RedirectHead \o code

\* JoinRouter.do_GET without the return that follows end_headers()
do_GET_fall_through(self_path) ==
    LET parsed_url == urlparse(self_path)
        join_match == re_match(parsed_url.path)
    IN (IF join_match.matched
        THEN << send_response(302),
                send_header("Location", redirect_url(share_code(join_match))),
                end_headers >>
        ELSE << >>) \o << super_do_GET(self_path) >>

\* JoinRouter.do_GET forwarding the query string of the request to the target
do_GET_keep_query(self_path) ==
    LET parsed_url == urlparse(self_path)
        join_match == re_match(parsed_url.path)
        forwarded == IF parsed_url.query = <<>> THEN <<>> ELSE <<"&">> \o parsed_url.query
    IN IF join_match.matched
       THEN << send_response(302),
               send_header("Location", redirect_url(share_code(join_match)) \o forwarded),
               end_headers >>
       ELSE << super_do_GET(self_path) >>

\* JoinRouter.do_GET
do_GET(self_path) ==
    LET parsed_url == urlparse(self_path)
        join_match == re_match(parsed_url.path)
    IN IF join_match.matched
       THEN << send_response(302),
               send_header("Location", redirect_url(share_code(join_match))),
               end_headers >>
       ELSE << super_do_GET(self_path) >>

\* the handler without its do_HEAD override
do_HEAD_inherited(self_path) == << super_do_HEAD(self_path) >>

\* JoinRouter.do_HEAD
do_HEAD(self_path) == do_GET(self_path)

(* ----------------- static-serve variant of the handler ------------------ *)

\* '/join/<6 alphanumeric characters>' (case-insensitive), optionally
\* followed by a trailing slash, and nothing else
serve_match(s) ==
    LET n == Len(JoinLiteral)
    IN /\ Len(s) \in {n + CodeLen, n + CodeLen + 1}
       /\ \A i \in 1..n : literal_char(JoinLiteral[i], s[i])
       /\ \A i \in (n+1)..(n+CodeLen) : char_class(s[i])
       /\ Len(s) = n + CodeLen + 1 => s[Len(s)] = "/"

\* the fixed template file
TemplateFile == <<"join/index.html">>

ContentTypeHtml == <<"text/html", "; charset=utf-8">>

wfile_write(body) ==
    [op |-> "wfile.write", status |-> 0, name |-> "", value |-> body]

send_error(code) ==
    [op |-> "send_error", status |-> code, name |-> "", value |-> NoValue]

\* the serve variant that does not look whether the template is there
do_GET_serve_unchecked(self_path) ==
    IF serve_match(urlparse(self_path).path)
    THEN << send_response(200), send_header("Content-Type", ContentTypeHtml),
            end_headers, wfile_write(TemplateFile) >>
    ELSE << super_do_GET(self_path) >>

\* the handler of the static-serve variant
do_GET_serve(self_path) ==
    IF serve_match(urlparse(self_path).path)
    THEN IF template_exists
         THEN << send_response(200), send_header("Content-Type", ContentTypeHtml),
                 end_headers, wfile_write(TemplateFile) >>
         ELSE << send_error(404) >>
    ELSE << super_do_GET(self_path) >>

(* ------------------------------ requests ------------------------------- *)

Methods == {"GET", "HEAD"}

\* five characters of a share code; a tail completes, overruns or breaks it
Stem == <<"a","B","3","d","E">>

TailChars == {"f", "9", "/"}

Tails == UNION {[1..n -> TailChars] : n \in 0..MaxTail}

JoinPaths == {JoinLiteral \o Stem \o t : t \in Tails}

OtherPaths ==
    { <<"/">>,
      <<"/","j","o","i","n",".","h","t","m","l">>,
      <<"/","J","O","I","N","/","a","B","3","d","E","f">>,
      <<"/","j","o","i","n","/","A","b","3","D","e","F">> }

Paths == JoinPaths \cup OtherPaths

\* what follows the path in the request target: nothing, a query, a fragment
Rests == { <<>>, <<"?","a","=","1">>, <<"#","f">> }

Requests == [method : Methods, path : Paths, rest : Rests]

NoRequest == [method |-> "", path |-> <<>>, rest |-> <<>>]

\* the request target as BaseHTTPRequestHandler.parse_request stores it
self_path(req) == req.path \o req.rest

(* ---------------------------- server loop ------------------------------ *)

\* a handler instance that has not read its request yet
NewExchange == [req |-> NoRequest, out |-> <<>>, done |-> FALSE]

\* socketserver.ThreadingTCPServer in place of socketserver.TCPServer
ServerClass_threading == "ThreadingTCPServer"

\* the server class the main block instantiates
ServerClass == "TCPServer"

\* BaseHTTPRequestHandler.handle_one_request: getattr(self, 'do_' + command)
handle_one_request(req) ==
    IF variant = "redirect"
    THEN IF req.method = "GET" THEN do_GET(self_path(req)) ELSE do_HEAD(self_path(req))
    ELSE do_GET_serve(self_path(req))

Init ==
    /\ pending = 0
    /\ pc = "select"
    /\ handling = <<>>
    /\ last = NewExchange
    /\ variant = "redirect"
    /\ template_exists = FALSE

\* the static-serve variant, started with or without its template file
InitServe ==
    /\ pending = 0
    /\ pc = "select"
    /\ handling = <<>>
    /\ last = NewExchange
    /\ variant = "serve"
    /\ template_exists \in BOOLEAN

\* a client connects; the kernel queues the connection
Connect ==
    /\ pending < MaxPending
    /\ pending' = pending + 1
    /\ UNCHANGED <<pc, handling, last, variant, template_exists>>

\* serve_forever: select, get_request (accept) and process_request, which
\* TCPServer runs inline and a threading server hands to a thread
Accept ==
    /\ pc = "select"
    /\ pending > 0
    /\ pending' = pending - 1
    /\ handling' = Append(handling, NewExchange)
    /\ pc' = IF ServerClass = "TCPServer" THEN "handling" ELSE "select"
    /\ UNCHANGED <<last, variant, template_exists>>

\* the handler reads the request line and runs do_GET or do_HEAD
Handle ==
    \E i \in DOMAIN handling, req \in Requests :
        /\ ~handling[i].done
        /\ handling' = [handling EXCEPT ![i] =
                           [req |-> req, out |-> handle_one_request(req), done |-> TRUE]]
        /\ UNCHANGED <<pending, pc, last, variant, template_exists>>

\* finish and shutdown_request: the connection is closed and the loop resumes
Shutdown ==
    \E i \in DOMAIN handling :
        /\ handling[i].done
        /\ last' = handling[i]
        /\ handling' = SubSeq(handling, 1, i - 1) \o SubSeq(handling, i + 1, Len(handling))
        /\ pc' = "select"
        /\ UNCHANGED <<pending, variant, template_exists>>

Next == Connect \/ Accept \/ Handle \/ Shutdown

Spec == Init /\ [][Next]_vars

SpecServe == InitServe /\ [][Next]_vars

(* ------------------------ vocabulary of the claims ---------------------- *)

\* the exchanges whose handler has run: the one in flight and the previous one
Completed ==
    {handling[i] : i \in {j \in DOMAIN handling : handling[j].done}}
        \cup (IF last.done THEN {last} ELSE {})

\* the exchanges in flight whose handler has run
InFlightDone == {handling[i] : i \in {j \in DOMAIN handling : handling[j].done}}

IsAlnum(c) == c \in LowerLetters \cup UpperLetters \cup Digits

\* p begins with /join/ followed by six alphanumeric characters
JoinThenCode(p) ==
    /\ Len(p) >= Len(JoinLiteral) + CodeLen
    /\ SubSeq(p, 1, Len(JoinLiteral)) = JoinLiteral
    /\ \A i \in (Len(JoinLiteral) + 1)..(Len(JoinLiteral) + CodeLen) : IsAlnum(p[i])

\* p is exactly /join/c for a six-character alphanumeric c
ExactJoinPath(p) == JoinThenCode(p) /\ Len(p) = Len(JoinLiteral) + CodeLen

\* p is /join/c/ for a six-character alphanumeric c
SlashJoinPath(p) ==
    /\ JoinThenCode(p)
    /\ Len(p) = Len(JoinLiteral) + CodeLen + 1
    /\ p[Len(p)] = "/"

\* the six characters after /join/
CodeOf(p) == SubSeq(p, Len(JoinLiteral) + 1, Len(JoinLiteral) + CodeLen)

\* what follows the six characters
SuffixOf(p) == SubSeq(p, Len(JoinLiteral) + CodeLen + 1, Len(p))

\* the 302 answer that sends the client to /join.html?code=<code>
RedirectTo(code) ==
    << send_response(302), send_header("Location", RedirectHead \o code), end_headers >>

\* the request went to the default static file handler and nothing else was sent
Delegated(x) == x.out = << super_do_GET(self_path(x.req)) >>

\* a 302 status line was sent
Sent302(x) == \E i \in DOMAIN x.out : x.out[i] = send_response(302)

SameLettersIgnoringCase(a, b) ==
    Len(a) = Len(b) /\ \A i \in 1..Len(a) : lower_char(a[i]) = lower_char(b[i])

(* -------------------------------- C1 ----------------------------------- *)

\* C1: a GET whose path is exactly /join/c, c six alphanumeric characters in any
\* mix of case, is answered with 302 and Location /join.html?code=<c in upper
\* case>, and is not passed to the default static file handler.
C1_ExactJoinRedirects ==
    \A x \in Completed :
        (x.req.method = "GET" /\ ExactJoinPath(x.req.path))
            => /\ x.out = RedirectTo(upper(CodeOf(x.req.path)))
               /\ ~Delegated(x)

\* a GET for /join/c with a lower-case letter in c has been answered
C1_Witness ==
    \E x \in Completed :
        /\ x.req.method = "GET"
        /\ ExactJoinPath(x.req.path)
        /\ \E i \in 1..CodeLen : CodeOf(x.req.path)[i] \in LowerLetters
        /\ Sent302(x)

(* -------------------------------- C2 ----------------------------------- *)

\* C2: every request path that is not /join/ followed by exactly six
\* alphanumeric characters and an optional trailing slash (the literal /join/
\* read without regard to case, as the pattern is) falls through to the default
\* static file serving and is never answered with the 302; /join/ABCDEFG falls
\* through.
C2_OthersFallThrough ==
    \A x \in Completed :
        LET p == x.req.path
            folded == [i \in 1..Len(p) |-> IF i <= Len(JoinLiteral) THEN lower_char(p[i]) ELSE p[i]]
        IN ~(ExactJoinPath(folded) \/ SlashJoinPath(folded))
              => (Delegated(x) /\ ~Sent302(x))

(* -------------------------------- C3 ----------------------------------- *)

\* C3: two requests /join/c1 and /join/c2 whose six-character alphanumeric
\* codes differ only in letter case both match and get the identical response:
\* status 302 and the same Location header.
C3_CaseInsensitive ==
    \A x \in Completed : \A y \in Completed :
        (/\ ExactJoinPath(x.req.path)
         /\ ExactJoinPath(y.req.path)
         /\ SameLettersIgnoringCase(CodeOf(x.req.path), CodeOf(y.req.path)))
            => (Sent302(x) /\ Sent302(y) /\ x.out = y.out)

\* two consecutive requests whose codes differ in case only were both answered
C3_Witness ==
    \E y \in InFlightDone :
        /\ last.done
        /\ ExactJoinPath(last.req.path)
        /\ ExactJoinPath(y.req.path)
        /\ last.req.path # y.req.path
        /\ SameLettersIgnoringCase(CodeOf(last.req.path), CodeOf(y.req.path))
        /\ Sent302(y)

(* -------------------------------- C4 ----------------------------------- *)

\* C4: /join/c/ produces the same response as /join/c (302 with Location
\* /join.html?code=<c in upper case>), and a single trailing slash is the only
\* suffix accepted after the six characters: any other suffix falls through.
C4_OnlyTrailingSlash ==
    \A x \in Completed :
        /\ SlashJoinPath(x.req.path) => x.out = RedirectTo(upper(CodeOf(x.req.path)))
        /\ (JoinThenCode(x.req.path) /\ SuffixOf(x.req.path) \notin {<<>>, <<"/">>})
              => Delegated(x)

(* -------------------------------- C5 ----------------------------------- *)

\* C5: a HEAD request takes the same branch as a GET request for the same
\* request target and yields the same status and headers; for a matching join
\* path both yield 302 with the same Location.
C5_HeadLikeGet ==
    \A x \in Completed : \A y \in Completed :
        (x.req.method = "GET" /\ y.req.method = "HEAD"
            /\ self_path(x.req) = self_path(y.req))
            => x.out = y.out

\* a GET and then a HEAD for the same matching join path were both answered
C5_Witness ==
    \E y \in InFlightDone :
        /\ last.done
        /\ last.req.method = "GET"
        /\ y.req.method = "HEAD"
        /\ self_path(last.req) = self_path(y.req)
        /\ ExactJoinPath(y.req.path)
        /\ Sent302(y)

(* -------------------------------- C6 ----------------------------------- *)

\* C6: in the static-serve variant a matching /join/<code> path is answered
\* with 200, content type text/html; charset=utf-8 and the contents of
\* join/index.html when that file exists, and with 404 when it is missing.
C6_ServeTemplateOr404 ==
    \A x \in Completed :
        (variant = "serve" /\ (ExactJoinPath(x.req.path) \/ SlashJoinPath(x.req.path)))
            => IF template_exists
               THEN x.out = << send_response(200),
                               send_header("Content-Type", ContentTypeHtml),
                               end_headers, wfile_write(TemplateFile) >>
               ELSE x.out = << send_error(404) >>

\* a matching path was requested while the template file was missing
C6_Witness ==
    \E x \in Completed :
        /\ variant = "serve"
        /\ ~template_exists
        /\ ExactJoinPath(x.req.path)
        /\ x.out = << send_error(404) >>

(* -------------------------------- C7 ----------------------------------- *)

\* C7: at most one request is being handled, and the loop is back at accepting
\* connections only when no request is being handled.
C7_OneAtATime ==
    /\ Len(handling) <= 1
    /\ pc = "select" => handling = <<>>

\* a request has been handled while another connection waits to be accepted
C7_Witness ==
    /\ pc = "handling"
    /\ Len(handling) = 1
    /\ handling[1].done
    /\ pending > 0

(* -------------------------------- C8 ----------------------------------- *)

\* C8: the response to a /join/<code> request depends only on that request's
\* own path: whatever came before, a request with the same path as the previous
\* one gets the same status and the same Location header.
C8_Stateless ==
    \A y \in InFlightDone :
        (/\ last.done
         /\ last.req.path = y.req.path
         /\ (ExactJoinPath(y.req.path) \/ SlashJoinPath(y.req.path)))
            => last.out = y.out

\* the same join path was requested twice in a row and answered with a redirect
C8_Witness ==
    \E y \in InFlightDone :
        /\ last.done
        /\ last.req.path = y.req.path
        /\ ExactJoinPath(y.req.path)
        /\ last.req # y.req
        /\ Sent302(y)

(* -------------------------------- C9 ----------------------------------- *)

\* C9: the query string and the fragment take no part in matching, and the
\* Location header of every redirect is exactly /join.html?code= followed by
\* the six upper-case characters of the code and nothing else.
C9_OnlyPathCounts ==
    /\ \A x \in Completed : \A y \in Completed :
          x.req.path = y.req.path => (Sent302(x) <=> Sent302(y))
    /\ \A x \in Completed :
          Sent302(x) =>
              LET code == upper(CodeOf(x.req.path))
              IN  /\ Len(code) = CodeLen
                  /\ \A i \in 1..CodeLen : code[i] \in UpperLetters \cup Digits
                  /\ \E i \in DOMAIN x.out : x.out[i] = send_header("Location", RedirectHead \o code)
                  /\ \A i \in DOMAIN x.out :
                        x.out[i].name = "Location" => x.out[i].value = RedirectHead \o code

\* a matching join path was requested with a query string after one without
C9_Witness ==
    \E y \in InFlightDone :
        /\ last.done
        /\ last.req.path = y.req.path
        /\ last.req.rest = <<>>
        /\ y.req.rest # <<>>
        /\ y.req.rest[1] = "?"
        /\ Sent302(last)
        /\ Sent302(y)

(* -------------------------------- C10 ---------------------------------- *)

====
